---- MODULE Spec2Model ----
(***************************************************************************)
(* The range-covered history cache of StockDataProvider                    *)
(* (src/data_tools/stock_data_provider.py, get_stock_history).             *)
(*                                                                         *)
(* One entity (one stock directory) is modelled: its history_data.csv, its *)
(* history_meta.json and the record of the last call.  Dates are days      *)
(* 1..MaxDate; the remote source has one row per trading day.  A row is    *)
(* [date, adjust]: the content of a fetched row is determined by the date  *)
(* and by the price-adjustment mode it was fetched under.                  *)
(*                                                                         *)
(* The snapshot getters (get_stock_dividend_info,                          *)
(* get_stock_research_report, get_stock_institute_recommendations,         *)
(* get_stock_valuation, get_stock_financial_report) each keep one csv file *)
(* of their own.  A behaviour follows one file of the entity: dataset      *)
(* names it, snap is the snapshot file and slast the record of the last    *)
(* snapshot call.                                                          *)
(*                                                                         *)
(* _parse_symbol is a function of its argument: symbol_input is the        *)
(* argument of one call and parsed its result.                             *)
(***************************************************************************)
EXTENDS Integers, Sequences, FiniteSets, TLC

VARIABLES file, meta, now, last, dataset, snap, slast, symbol_input, parsed,
          callers

vars == <<file, meta, now, last, dataset, snap, slast, symbol_input, parsed,
          callers>>

\* ---------------------------------------------------------------- bounds
MaxDate == 4
MaxTime == 3
Holiday == 2

Dates == 1..MaxDate
\* an input string pd.to_datetime cannot parse
BadDate == MaxDate + 1
\* the (start_date, end_date) arguments of the calls
CallArgs ==
  (Dates \X Dates)
  \cup {<<BadDate, MaxDate>>, <<MaxDate, BadDate>>, <<BadDate, BadDate>>}
\* the days for which the remote source has a row
RemoteDates == Dates \ {Holiday}
Adjusts == {"qfq", "hfq"}

\* Python's None in covered_start / covered_end and in absent JSON keys
None == 0

Min(a, b) == IF a <= b THEN a ELSE b
Max(a, b) == IF a >= b THEN a ELSE b

\* ---------------------------------------------------------------- tables
Row(d, a) == [date |-> d, adjust |-> a]

\* df.loc[(df['日期'] >= s) & (df['日期'] <= e)]
Mask(rows, s, e) == SelectSeq(rows, LAMBDA r : r.date >= s /\ r.date <= e)

InsertByDate(r, sorted) ==
  LET k == Cardinality({i \in 1..Len(sorted) : sorted[i].date <= r.date})
  IN SubSeq(sorted, 1, k) \o <<r>> \o SubSeq(sorted, k + 1, Len(sorted))

RECURSIVE SortRec(_)
SortRec(rows) ==
  IF rows = <<>> THEN <<>>
  ELSE InsertByDate(rows[Len(rows)], SortRec(SubSeq(rows, 1, Len(rows) - 1)))

\* df.sort_values('日期')
SortByDate(rows) == SortRec(rows)

\* the rows at the indices idx, in their order
PickRows(rows, idx) ==
  LET F[i \in 0..Len(rows)] ==
        IF i = 0 THEN <<>>
        ELSE IF i \in idx THEN Append(F[i - 1], rows[i]) ELSE F[i - 1]
  IN F[Len(rows)]

DropDuplicatesKeepFirst(rows) ==
  PickRows(rows, {i \in 1..Len(rows) :
                    \A j \in 1..(i - 1) : rows[j].date # rows[i].date})

\* df.drop_duplicates(subset=['日期'], keep='last')
DropDuplicates(rows) ==
  PickRows(rows, {i \in 1..Len(rows) :
                    \A j \in (i + 1)..Len(rows) : rows[j].date # rows[i].date})

\* ---------------------------------------------------------------- files
\* history_data.csv: absent; "empty" (0 bytes); "garbage" (bytes read_csv
\* cannot parse); "nodate" (a table without the 日期 column); "table".
File(k, rows) == [kind |-> k, rows |-> rows]
NoFile == File("absent", <<>>)

\* history_meta.json: absent; "garbage" (not JSON); "json" with the keys
\* covered_start, covered_end (None when the key is missing), last_update.
Meta(k, cs, ce, lu) ==
  [kind |-> k, covered_start |-> cs, covered_end |-> ce, last_update |-> lu]
NoMeta == Meta("absent", None, None, None)

\* A data frame in memory: cols = FALSE is a frame without the 日期 column.
Frame(cols, rows) == [cols |-> cols, rows |-> rows]

\* final_df.to_csv(file_path, encoding='utf-8-sig'): a frame with no columns
\* is written as a byte-order mark and a line naming no column.  Read back,
\* that file is not empty and yields no 日期 column (read_csv raises on it);
\* every reader below treats "garbage" and "nodate" alike.
ToCsv(df) == IF df.cols THEN File("table", df.rows) ELSE File("garbage", <<>>)

\* ---------------------------------------------------------------- remote
RECURSIVE AscRows(_, _)
AscRows(ds, a) ==
  IF ds = {} THEN <<>>
  ELSE LET d == CHOOSE x \in ds : \A y \in ds : x <= y
       IN <<Row(d, a)>> \o AscRows(ds \ {d}, a)

Reverse(s) == [i \in 1..Len(s) |-> s[Len(s) + 1 - i]]

\* the rows the remote source holds for [s, e] under adjust a
RemoteRows(s, e, a) == AscRows({d \in RemoteDates : s <= d /\ d <= e}, a)

\* What ak.stock_zh_a_hist may answer: raise; all its rows of the interval
\* in ascending order, in descending order, or with the last row repeated;
\* for an interval without rows, a frame with no columns or an empty frame
\* with its columns.
Responses(s, e, a) ==
  LET rr == RemoteRows(s, e, a) IN
  {[kind |-> "error", df |-> Frame(FALSE, <<>>)]}
  \cup (IF rr = <<>>
        THEN {[kind |-> "ok", df |-> Frame(FALSE, <<>>)],
              [kind |-> "ok", df |-> Frame(TRUE, <<>>)]}
        ELSE {[kind |-> "ok", df |-> Frame(TRUE, x)] :
                x \in {rr, Reverse(rr), Append(rr, rr[Len(rr)])}})

\* ---------------------------------------------------------------- get_stock_history
\* covered_start, covered_end as read from history_meta.json: the metadata is
\* read only when both files exist and the table file is not 0 bytes long;
\* an exception leaves unassigned what it had not yet assigned.
LoadCoverage(f, m) ==
  IF m.kind = "absent" \/ f.kind = "absent" THEN <<None, None>>
  ELSE IF f.kind = "empty" THEN <<None, None>>
  ELSE IF m.kind = "garbage" THEN <<None, None>>
  ELSE IF m.covered_start = None THEN <<None, None>>
  ELSE IF m.covered_end = None THEN <<m.covered_start, None>>
  ELSE <<m.covered_start, m.covered_end>>

\* the comparison with the bounds themselves left out
IsCoveredStrict(cov, s, e) ==
  cov[1] # None /\ cov[2] # None /\ cov[1] < s /\ cov[2] > e

\* if covered_start and covered_end: if covered_start <= req_start_dt and
\* covered_end >= req_end_dt
IsCovered(cov, s, e) ==
  cov[1] # None /\ cov[2] # None /\ cov[1] <= s /\ cov[2] >= e

\* the hit path returns whatever the file holds
HitReadableAny(f) == TRUE

\* the hit path returns only when read_csv succeeds and 日期 is a column
HitReadable(f) == f.kind = "table"

HitResultUnsliced(rows, s, e) == SortByDate(rows)

\* df.loc[mask].sort_values('日期').reset_index(drop=True)
HitResult(rows, s, e) == SortByDate(Mask(rows, s, e))

\* the existing table is never loaded
LoadCachedNone(f) == [has |-> FALSE, rows |-> <<>>]

\* cached_df: None unless the file parses and has the 日期 column
LoadCached(f) ==
  IF f.kind = "table" THEN [has |-> TRUE, rows |-> f.rows]
  ELSE [has |-> FALSE, rows |-> <<>>]

\* the fetched frame alone, whatever was cached
MergedNewOnly(cached, new) == new

\* final_df: concat, drop_duplicates(keep='last'), sort_values when a cached
\* table was loaded; the fetched frame as received otherwise
Merged(cached, new) ==
  IF cached.has
  THEN Frame(TRUE, SortByDate(DropDuplicates(cached.rows \o new.rows)))
  ELSE new

NewCoveredStartFresh(cs, s) == s

NewCoveredStart(cs, s) == IF cs # None THEN Min(cs, s) ELSE s

NewCoveredEndFresh(ce, e) == e

NewCoveredEnd(ce, e) == IF ce # None THEN Max(ce, e) ELSE e

WriteOrderMetaFirst == <<"meta", "table">>

\* final_df.to_csv(file_path) comes before json.dump(meta, f)
WriteOrder == <<"table", "meta">>

\* the persisted state once the first k writes of WriteOrder are done
Persist(f, m, newf, newm, k) ==
  [file |-> IF \E i \in 1..k : WriteOrder[i] = "table" THEN newf ELSE f,
   meta |-> IF \E i \in 1..k : WriteOrder[i] = "meta" THEN newm ELSE m]

FetchFailedMetaWritten(f, m, newm) == [file |-> f, meta |-> newm]

\* the fetch is the first statement of the try block: when it raises,
\* nothing has been written
FetchFailed(f, m, newm) == [file |-> f, meta |-> m]

\* final_df.loc[mask].reset_index(drop=True): no sort on this path
FetchResult(rows, s, e) == Mask(rows, s, e)

\* only the part of the requested interval after the coverage found
FetchIntervalDelta(cov, s, e) ==
  IF cov[1] # None /\ cov[2] # None /\ cov[1] <= s /\ s <= cov[2] /\ cov[2] < e
  THEN <<cov[2] + 1, e>>
  ELSE <<s, e>>

\* the (start_date, end_date) passed to ak.stock_zh_a_hist: the arguments of
\* the call, whatever coverage was found
FetchInterval(cov, s, e) == <<s, e>>

\* what one call did: outcome, arguments, covered_start and covered_end as
\* read, the intervals fetched, the rows
\* of cached_df (merged: cached_df was not None), the rows the fetch
\* returned, the number of file writes done, the rows returned to the
\* caller, whether it raised; again: the call before it was a hit for the
\* same interval
CallRec(o, s, e, a, cov, fs, merged, cached, got, k, ret, raised) ==
  [outcome |-> o, s |-> s, e |-> e, adjust |-> a, cov |-> cov,
   fetches |-> fs,
   merged |-> merged, cached |-> cached, fetched |-> got, writes |-> k,
   ret |-> ret, raised |-> raised, again |-> FALSE]

RowSet(rows) == {rows[i] : i \in 1..Len(rows)}

\* whether the call reaches ak.stock_zh_a_hist: the dates parse and the hit
\* path has not returned
ReachesFetch(f, m, start, end) ==
  /\ start \in Dates
  /\ end \in Dates
  /\ ~(IsCovered(LoadCoverage(f, m), start, end) /\ HitReadable(f))

\* the remote's answers to a call: none is asked for on a date error or a hit
Answers(f, m, start, end, adjust) ==
  IF ReachesFetch(f, m, start, end)
  THEN LET iv == FetchInterval(LoadCoverage(f, m), start, end)
       IN Responses(iv[1], iv[2], adjust)
  ELSE {[kind |-> "none", df |-> Frame(FALSE, <<>>)]}

\* get_stock_history(symbol, start, end, adjust) on the files f, m at time
\* t, the remote answering resp, execution stopping after k file writes
\* (k = Len(WriteOrder): it runs to the end).
History(f, m, start, end, adjust, resp, t, k) ==
  IF start \notin Dates \/ end \notin Dates
  THEN [file |-> f, meta |-> m,
        last |-> CallRec("date_error", start, end, adjust, <<None, None>>, <<>>, FALSE, {}, {},
                         0, <<>>, TRUE)]
  ELSE
  LET cov == LoadCoverage(f, m) IN
  IF IsCovered(cov, start, end) /\ HitReadable(f)
  THEN [file |-> f, meta |-> m,
        last |-> CallRec("hit", start, end, adjust, cov, <<>>, FALSE, {}, {}, 0,
                         HitResult(f.rows, start, end), FALSE)]
  ELSE
  LET cached == LoadCached(f)
      newm == Meta("json", NewCoveredStart(cov[1], start),
                   NewCoveredEnd(cov[2], end), t)
  IN
  IF resp.kind = "error"
  THEN LET st == FetchFailed(f, m, newm) IN
       [file |-> st.file, meta |-> st.meta,
        last |-> CallRec("fetch_error", start, end, adjust, cov,
                         <<FetchInterval(cov, start, end)>>, cached.has, RowSet(cached.rows),
                         {}, 0, <<>>, TRUE)]
  ELSE
  LET final == Merged(cached, resp.df)
      st == Persist(f, m, ToCsv(final), newm, k)
      got == RowSet(resp.df.rows)
  IN
  IF k < Len(WriteOrder)
  THEN [file |-> st.file, meta |-> st.meta,
        last |-> CallRec("crash", start, end, adjust, cov,
                         <<FetchInterval(cov, start, end)>>, cached.has, RowSet(cached.rows),
                         got, k, <<>>, FALSE)]
  ELSE IF final.cols
  THEN [file |-> st.file, meta |-> st.meta,
        last |-> CallRec("ok", start, end, adjust, cov, <<FetchInterval(cov, start, end)>>,
                         cached.has, RowSet(cached.rows), got, k,
                         FetchResult(final.rows, start, end), FALSE)]
  ELSE \* final_df['日期'] raises KeyError after both writes
       [file |-> st.file, meta |-> st.meta,
        last |-> CallRec("key_error", start, end, adjust, cov,
                         <<FetchInterval(cov, start, end)>>, cached.has, RowSet(cached.rows),
                         got, k, <<>>, TRUE)]

\* ---------------------------------------------------------------- _parse_symbol
\* A string is a sequence of one-character strings.
Whitespace == {" "}

\* the letters of the inputs, upper case and lower case
CasePairs ==
  {<<"S", "s">>, <<"Z", "z">>, <<"H", "h">>, <<"B", "b">>, <<"J", "j">>}

LowerChar(c) ==
  IF \E p \in CasePairs : p[1] = c
  THEN (CHOOSE p \in CasePairs : p[1] = c)[2]
  ELSE c

UpperChar(c) ==
  IF \E p \in CasePairs : p[2] = c
  THEN (CHOOSE p \in CasePairs : p[2] = c)[1]
  ELSE c

\* str.lower(), str.upper()
Lower(s) == [i \in 1..Len(s) |-> LowerChar(s[i])]

Upper(s) == [i \in 1..Len(s) |-> UpperChar(s[i])]

RECURSIVE LStrip(_)
LStrip(s) ==
  IF s # <<>> /\ Head(s) \in Whitespace THEN LStrip(Tail(s)) ELSE s

RECURSIVE RStrip(_)
RStrip(s) ==
  IF s # <<>> /\ s[Len(s)] \in Whitespace
  THEN RStrip(SubSeq(s, 1, Len(s) - 1))
  ELSE s

\* str.strip()
Strip(s) == RStrip(LStrip(s))

\* '.' in symbol_input
HasDot(s) == \E i \in 1..Len(s) : s[i] = "."

\* str.split('.'): the parts between the dots
RECURSIVE Split(_)
Split(s) ==
  IF ~HasDot(s) THEN <<s>>
  ELSE LET i == CHOOSE k \in 1..Len(s) :
                  s[k] = "." /\ \A j \in 1..(k - 1) : s[j] # "."
       IN <<SubSeq(s, 1, i - 1)>> \o Split(SubSeq(s, i + 1, Len(s)))

\* str.startswith(c)
StartsWith(s, c) == s # <<>> /\ s[1] = c

\* the inference without the branch for 4 and 8
ExchangePrefixNoBeijing(code) ==
  IF StartsWith(code, "6") THEN <<"S", "H">> ELSE <<"S", "Z">>

\* the exchange inferred for a code given without suffix: SH for a leading
\* 6, SZ for a leading 0 or 3, BJ for a leading 4 or 8, else SZ
ExchangePrefix(code) ==
  IF StartsWith(code, "6") THEN <<"S", "H">>
  ELSE IF StartsWith(code, "0") \/ StartsWith(code, "3") THEN <<"S", "Z">>
  ELSE IF StartsWith(code, "4") \/ StartsWith(code, "8") THEN <<"B", "J">>
  ELSE <<"S", "Z">>

\* the result of a call of _parse_symbol: (pure_code, xq_code), or the
\* ValueError of unpacking other than two parts
Parsed(raised, pure, xq) == [raised |-> raised, pure_code |-> pure, xq_code |-> xq]

NotParsed == [raised |-> FALSE, pure_code |-> <<"?">>, xq_code |-> <<"?">>]

\* _parse_symbol(symbol_input)
ParseSymbol(raw) ==
  LET s == Lower(Strip(raw)) IN
  IF HasDot(s)
  THEN LET parts == Split(s) IN
       IF Len(parts) # 2 THEN Parsed(TRUE, <<>>, <<>>)
       ELSE Parsed(FALSE, parts[1], Upper(parts[2]) \o parts[1])
  ELSE Parsed(FALSE, s, ExchangePrefix(s) \o s)

\* the codes of the inputs: one for each leading character the inference
\* tells apart, one led by a letter, the empty code, and the two of the
\* provider's test
Codes ==
  {<<c, "1">> : c \in {"6", "0", "3", "4", "8", "9", "H"}}
  \cup {<<>>, <<"0", "0", "0", "8", "5", "8">>, <<"6", "0", "0", "5", "1", "9">>}

Suffixes ==
  {<<"s", "z">>, <<"S", "Z">>, <<"s", "Z">>, <<"s", "h">>, <<"S", "H">>,
   <<"b", "j">>, <<"B", "j">>}

\* the symbols given to the provider: a code, a code with a suffix, or a
\* code with two suffixes, possibly between blanks
SymbolInputs ==
  LET bodies == Codes
                \cup {c \o <<".">> \o x : c \in Codes, x \in Suffixes}
                \cup {c \o <<".">> \o x \o <<".">> \o x : c \in Codes, x \in {<<"s", "z">>}}
      pads == {<<>>, <<" ">>}
  IN {l \o b \o r : l \in pads, b \in bodies, r \in pads}

\* ---------------------------------------------------------------- snapshot getters
\* the csv files of the snapshot getters: dividend_info.csv,
\* research_report.csv, institute_recommendations.csv,
\* valuation_<indicator>.csv, financial_<report_type>.csv
SnapKinds == {"dividend", "research", "institute", "valuation", "financial"}

\* the getters that take start_date and end_date
FilteredKinds == {"dividend", "research"}

\* the content the remote source holds at different times
Versions == {"v1", "v2"}

\* (start_date, end_date) of a filtering getter: None when not given, a
\* day, or a string pd.to_datetime cannot parse
FilterArgs ==
  (({None} \cup Dates) \X ({None} \cup Dates))
  \cup {<<BadDate, None>>, <<None, BadDate>>, <<BadDate, MaxDate>>}

\* a row of a snapshot table: the cell of its date column (None: a cell
\* that is no date, such as '--') and the content version it came from
SnapRow(d, v) == [date |-> d, ver |-> v]

\* a DataFrame of a snapshot getter: whether it has columns, whether it has
\* the date column the getter looks at, its rows, whether its column types
\* are those of the remote source or those read_csv infers, and whether the
\* date column has been converted to date objects
SnapFrame(cols, datecol, rows, dtypes, coerced) ==
  [cols |-> cols, datecol |-> datecol, rows |-> rows, dtypes |-> dtypes,
   coerced |-> coerced]

\* pd.DataFrame()
EmptyFrame == SnapFrame(FALSE, FALSE, <<>>, "api", FALSE)

\* a snapshot csv file: absent, a table, or text read_csv raises on
SnapFile(kind, datecol, rows) == [kind |-> kind, datecol |-> datecol, rows |-> rows]

NoSnapFile == SnapFile("absent", FALSE, <<>>)

\* df.to_csv(file_path, index=False): a frame without columns leaves a file
\* read_csv raises EmptyDataError on
ToCsvSnap(df) ==
  IF df.cols THEN SnapFile("table", df.datecol, df.rows)
  ELSE SnapFile("garbage", FALSE, <<>>)

\* pd.read_csv(file_path, ...) of a file that parses: the column types are
\* inferred from the text
ReadCsvSnap(f) == SnapFrame(TRUE, f.datecol, f.rows, "csv", FALSE)

\* the frames the remote source may return for one content version: one
\* with the date column (a row for each day and, for the dividend and
\* research tables, a row whose date cell is no date), one without the date
\* column, and a frame without columns
DatedFrame(kind, v) ==
  SnapFrame(TRUE, TRUE,
            (IF kind \in FilteredKinds THEN <<SnapRow(None, v)>> ELSE <<>>)
              \o [d \in 1..MaxDate |-> SnapRow(d, v)],
            "api", FALSE)

UndatedFrame(v) == SnapFrame(TRUE, FALSE, <<SnapRow(None, v)>>, "api", FALSE)

RemoteFrames(kind) ==
  {EmptyFrame} \cup {DatedFrame(kind, v) : v \in Versions}
  \cup {UndatedFrame(v) : v \in Versions}

\* what the akshare call of a snapshot getter may do: raise with a message
\* that contains "Empty DataFrame" or "No tables found", raise with another
\* message, or return a frame
SnapResponses(kind) ==
  {[kind |-> "error", msg |-> m, df |-> EmptyFrame] : m \in {"no_tables", "other"}}
  \cup {[kind |-> "ok", msg |-> "", df |-> d] : d \in RemoteFrames(kind)}

NoAnswer == [kind |-> "none", msg |-> "", df |-> EmptyFrame]

\* the cache is never read
LoadSnapshotIgnored(f, force) == [has |-> FALSE, df |-> EmptyFrame]

\* if not force_update and os.path.exists(file_path): df = pd.read_csv(...),
\* an exception leaving no frame
LoadSnapshot(f, force) ==
  IF ~force /\ f.kind = "table"
  THEN [has |-> TRUE, df |-> ReadCsvSnap(f)]
  ELSE [has |-> FALSE, df |-> EmptyFrame]

\* the fetched rows appended to the rows of the file found
StoreSnapshotMerged(f, df) ==
  IF f.kind = "table" /\ df.cols
  THEN SnapFile("table", df.datecol, f.rows \o df.rows)
  ELSE ToCsvSnap(df)

\* df.to_csv(file_path, ...) over the file found
StoreSnapshot(f, df) == ToCsvSnap(df)

\* the frame written is the frame returned to the caller
SavedFrameFiltered(fetched, filtered) == filtered

\* the frame written to the file: the frame fetched, before any filtering
SavedFrame(fetched, filtered) == fetched

\* the start bound compared with > instead of >=
FilterByDateExclusive(df, start, end) ==
  IF start = None /\ end = None THEN df
  ELSE IF ~df.datecol THEN df
  ELSE LET conv == [df EXCEPT !.coerced = TRUE] IN
       IF start = BadDate \/ end = BadDate THEN conv
       ELSE [conv EXCEPT !.rows =
               SelectSeq(conv.rows,
                         LAMBDA r : /\ r.date # None
                                    /\ (start = None \/ r.date > start)
                                    /\ (end = None \/ r.date <= end))]

\* a frame without the date column loses its rows when a bound is given
FilterByDateDropsUndated(df, start, end) ==
  IF start = None /\ end = None THEN df
  ELSE IF ~df.datecol THEN [df EXCEPT !.rows = <<>>]
  ELSE LET conv == [df EXCEPT !.coerced = TRUE] IN
       IF start = BadDate \/ end = BadDate THEN conv
       ELSE [conv EXCEPT !.rows =
               SelectSeq(conv.rows,
                         LAMBDA r : /\ r.date # None
                                    /\ (start = None \/ r.date >= start)
                                    /\ (end = None \/ r.date <= end))]

\* the filter of get_stock_dividend_info and get_stock_research_report:
\* nothing without a bound or without the date column; else the date
\* column is converted (errors='coerce') and the rows with a date within
\* the given bounds are kept, a cell that is no date comparing False; a
\* bound that does not parse raises inside the try, which leaves the frame
\* converted and unfiltered
FilterByDate(df, start, end) ==
  IF start = None /\ end = None THEN df
  ELSE IF ~df.datecol THEN df
  ELSE LET conv == [df EXCEPT !.coerced = TRUE] IN
       IF start = BadDate \/ end = BadDate THEN conv
       ELSE [conv EXCEPT !.rows =
               SelectSeq(conv.rows,
                         LAMBDA r : /\ r.date # None
                                    /\ (start = None \/ r.date >= start)
                                    /\ (end = None \/ r.date <= end))]

\* get_stock_valuation: if 'date' in df.columns: df['date'] =
\* pd.to_datetime(df['date']).dt.date, on the frame read and on the frame
\* fetched
ConvertDates(kind, df) ==
  IF kind = "valuation" /\ df.datecol THEN [df EXCEPT !.coerced = TRUE] ELSE df

\* no exception of the fetch is turned into a result
SwallowedNever(kind, resp) == FALSE

\* get_stock_institute_recommendations: if "Empty DataFrame" in str(e) or
\* "No tables found" in str(e): return pd.DataFrame()
Swallowed(kind, resp) ==
  kind = "institute" /\ resp.kind = "error" /\ resp.msg = "no_tables"

\* the file is removed when the remote call raises
SnapshotFetchFailedRemoved(f) == NoSnapFile

\* the remote call comes before df.to_csv in the try block: when it raises,
\* the file is as it was found
SnapshotFetchFailed(f) == f

\* what one snapshot call did: outcome, arguments, the file found, the
\* remote's answer, the number of remote calls, the frame fetched, the frame
\* returned, whether it raised
SnapRec(o, force, start, end, found, resp, n, got, ret, raised) ==
  [outcome |-> o, force |-> force, start |-> start, end |-> end,
   found |-> found, answer |-> resp, fetches |-> n, fetched |-> got,
   ret |-> ret, raised |-> raised]

NoSnapCall == SnapRec("none", FALSE, None, None, NoSnapFile, NoAnswer, 0,
                      EmptyFrame, EmptyFrame, FALSE)

\* the getter of the file kind called with force_update = force and, for
\* the filtering getters, start_date and end_date, on the file f, the
\* remote answering resp
SnapshotGet(kind, f, force, start, end, resp) ==
  LET c == LoadSnapshot(f, force) IN
  IF c.has
  THEN LET df == ConvertDates(kind, c.df) IN
       [snap |-> f,
        slast |-> SnapRec("hit", force, start, end, f, resp, 0, EmptyFrame,
                          IF kind \in FilteredKinds
                          THEN FilterByDate(df, start, end) ELSE df,
                          FALSE)]
  ELSE IF resp.kind = "error"
  THEN IF Swallowed(kind, resp)
       THEN [snap |-> SnapshotFetchFailed(f),
             slast |-> SnapRec("swallowed", force, start, end, f, resp, 1,
                               EmptyFrame, EmptyFrame, FALSE)]
       ELSE [snap |-> SnapshotFetchFailed(f),
             slast |-> SnapRec("fetch_error", force, start, end, f, resp, 1,
                               EmptyFrame, EmptyFrame, TRUE)]
  ELSE LET got == ConvertDates(kind, resp.df)
           out == IF kind \in FilteredKinds
                  THEN FilterByDate(got, start, end) ELSE got
       IN [snap |-> StoreSnapshot(f, SavedFrame(got, out)),
           slast |-> SnapRec("ok", force, start, end, f, resp, 1, got, out,
                             FALSE)]

\* the remote's answers to a snapshot call: none is asked for when the
\* cache is read
SnapAnswers(kind, f, force) ==
  IF LoadSnapshot(f, force).has THEN {NoAnswer} ELSE SnapResponses(kind)

\* ---------------------------------------------------------------- callers
\* the processes that may be inside get_stock_history on the same files at
\* the same time
Callers == {1, 2}

\* A caller's position in get_stock_history and its local variables:
\* the arguments, covered_start and covered_end as it read them, cached_df,
\* new_df, the table and the metadata it has written.
NoCaller ==
  [pc |-> "idle", s |-> None, e |-> None, adjust |-> "qfq",
   cov |-> <<None, None>>, cached |-> [has |-> FALSE, rows |-> <<>>],
   fetched |-> Frame(FALSE, <<>>), table |-> NoFile, metaw |-> NoMeta,
   outcome |-> "none"]

\* ---------------------------------------------------------------- behaviour
Init ==
  /\ file = NoFile
  /\ meta = NoMeta
  /\ now = 0
  /\ last = CallRec("none", None, None, "qfq", <<None, None>>, <<>>, FALSE, {}, {}, 0,
                  <<>>, FALSE)
  /\ dataset = "history"
  /\ snap = NoSnapFile
  /\ slast = NoSnapCall
  /\ symbol_input = <<>>
  /\ parsed = NotParsed
  /\ callers = [p \in Callers |-> NoCaller]

\* one complete call get_stock_history(symbol, args[1], args[2], adjust)
Call(args, adjust) ==
  \E resp \in Answers(file, meta, args[1], args[2], adjust) :
    LET out == History(file, meta, args[1], args[2], adjust, resp,
                       now + 1, Len(WriteOrder))
    IN /\ file' = out.file
       /\ meta' = out.meta
       /\ last' = [out.last EXCEPT !.again = /\ last.outcome = "hit"
                                             /\ out.last.outcome = "hit"
                                             /\ last.s = args[1]
                                             /\ last.e = args[2]]

GetStockHistory ==
  /\ now < MaxTime
  /\ \E args \in CallArgs, adjust \in Adjusts : Call(args, adjust)
  /\ now' = now + 1
  /\ UNCHANGED <<dataset, snap, slast, symbol_input, parsed, callers>>

Next == GetStockHistory

Spec == Init /\ [][Next]_vars

\* the calls whose dates parse and whose start is not later than their end
GetStockHistoryInRange ==
  /\ now < MaxTime
  /\ \E args \in {a \in Dates \X Dates : a[1] <= a[2]}, adjust \in Adjusts :
       Call(args, adjust)
  /\ now' = now + 1
  /\ UNCHANGED <<dataset, snap, slast, symbol_input, parsed, callers>>

NextInRange == GetStockHistoryInRange

SpecInRange == Init /\ [][NextInRange]_vars

\* a call whose process stops between two of its file writes, with k of
\* them done
GetStockHistoryCrash ==
  /\ now < MaxTime
  /\ \E args \in CallArgs, adjust \in Adjusts :
       /\ ReachesFetch(file, meta, args[1], args[2])
       /\ \E resp \in Answers(file, meta, args[1], args[2], adjust),
             k \in 1..(Len(WriteOrder) - 1) :
            LET out == History(file, meta, args[1], args[2], adjust, resp,
                               now + 1, k)
            IN /\ resp.kind = "ok"
               /\ file' = out.file
               /\ meta' = out.meta
               /\ last' = out.last
  /\ now' = now + 1
  /\ UNCHANGED <<dataset, snap, slast, symbol_input, parsed, callers>>

\* the calls of one process up to the point where it stops
NextCrash ==
  \/ last.outcome # "crash" /\ GetStockHistory
  \/ last.outcome # "crash" /\ GetStockHistoryCrash

SpecCrash == Init /\ [][NextCrash]_vars

\* The persisted files damaged from outside between two calls: the table
\* file truncated to 0 bytes, overwritten with bytes that do not parse, or
\* with a table that has no 日期 column; the metadata overwritten with
\* non-JSON, or with JSON lacking one of the two coverage keys.
CorruptFiles == {File("empty", <<>>), File("garbage", <<>>), File("nodate", <<>>)}

CorruptMetas(m) ==
  {Meta("garbage", None, None, None)}
  \cup (IF m.kind = "json" /\ m.covered_start # None /\ m.covered_end # None
        THEN {[m EXCEPT !.covered_end = None], [m EXCEPT !.covered_start = None]}
        ELSE {})

ExternalCorruption ==
  /\ now < MaxTime
  /\ last.outcome # "corrupt"
  /\ file.kind # "absent"
  /\ meta.kind # "absent"
  /\ \E f \in CorruptFiles \cup {file}, m \in CorruptMetas(meta) \cup {meta} :
       /\ f # file \/ m # meta
       /\ file' = f
       /\ meta' = m
  /\ last' = CallRec("corrupt", None, None, "qfq", <<None, None>>, <<>>, FALSE, {}, {}, 0,
                     <<>>, FALSE)
  /\ now' = now
  /\ UNCHANGED <<dataset, snap, slast, symbol_input, parsed, callers>>

NextCorrupt == GetStockHistory \/ ExternalCorruption

SpecCorrupt == Init /\ [][NextCorrupt]_vars

\* ---- the snapshot getters, on the one file dataset names
InitSnapshot ==
  /\ file = NoFile
  /\ meta = NoMeta
  /\ now = 0
  /\ last = CallRec("none", None, None, "qfq", <<None, None>>, <<>>, FALSE, {}, {}, 0,
                  <<>>, FALSE)
  /\ dataset \in SnapKinds
  /\ snap = NoSnapFile
  /\ slast = NoSnapCall
  /\ symbol_input = <<>>
  /\ parsed = NotParsed
  /\ callers = [p \in Callers |-> NoCaller]

\* one complete call of the getter of dataset
SnapshotCall(force, start, end) ==
  /\ \E resp \in SnapAnswers(dataset, snap, force) :
       LET out == SnapshotGet(dataset, snap, force, start, end, resp)
       IN /\ snap' = out.snap
          /\ slast' = out.slast
  /\ UNCHANGED <<file, meta, now, last, dataset, symbol_input, parsed, callers>>

GetStockDividendInfo ==
  /\ dataset = "dividend"
  /\ \E force \in BOOLEAN, args \in FilterArgs :
       SnapshotCall(force, args[1], args[2])

GetStockResearchReport ==
  /\ dataset = "research"
  /\ \E force \in BOOLEAN, args \in FilterArgs :
       SnapshotCall(force, args[1], args[2])

GetStockInstituteRecommendations ==
  /\ dataset = "institute"
  /\ \E force \in BOOLEAN : SnapshotCall(force, None, None)

GetStockValuation ==
  /\ dataset = "valuation"
  /\ \E force \in BOOLEAN : SnapshotCall(force, None, None)

GetStockFinancialReport ==
  /\ dataset = "financial"
  /\ \E force \in BOOLEAN : SnapshotCall(force, None, None)

NextSnapshot ==
  \/ GetStockDividendInfo
  \/ GetStockResearchReport
  \/ GetStockInstituteRecommendations
  \/ GetStockValuation
  \/ GetStockFinancialReport

SpecSnapshot == InitSnapshot /\ [][NextSnapshot]_vars

\* every getter of the provider: the history table or one snapshot file
InitAll ==
  \/ Init
  \/ InitSnapshot

NextAll ==
  \/ dataset = "history" /\ GetStockHistory
  \/ NextSnapshot

SpecAll == InitAll /\ [][NextAll]_vars

\* ---- every getter, with its files damaged from outside: a history call is
\* made while no metadata exists yet, and after that only on damaged files
\* (each call is followed by new damage before the next one)

\* a snapshot file truncated to 0 bytes or overwritten with bytes that do
\* not parse
CorruptSnapFiles == {SnapFile("empty", FALSE, <<>>), SnapFile("garbage", FALSE, <<>>)}

SnapshotCorruption ==
  /\ snap.kind = "table"
  /\ \E f \in CorruptSnapFiles : snap' = f
  /\ slast' = SnapRec("corrupt", FALSE, None, None, snap, NoAnswer, 0,
                      EmptyFrame, EmptyFrame, FALSE)
  /\ UNCHANGED <<file, meta, now, last, dataset, symbol_input, parsed, callers>>

NextRecover ==
  \/ /\ dataset = "history"
     /\ meta.kind = "absent" \/ last.outcome = "corrupt"
     /\ GetStockHistoryInRange
  \/ dataset = "history" /\ ExternalCorruption
  \/ NextSnapshot
  \/ SnapshotCorruption

SpecRecover == InitAll /\ [][NextRecover]_vars

\* ---- two callers inside get_stock_history on the same files, interleaved
\* at each access to the files.  What a caller does between two accesses
\* touches only its local variables and is part of the step of the access
\* that follows it.

\* adjust: str = "qfq", the value a call has when it passes none
DefaultAdjust == "qfq"

\* lines 139-150: the caller reads the metadata (both files exist, the
\* table file is not 0 bytes long) and compares the coverage with its
\* arguments.  The callers are alike: the one named first is the first to
\* start.  Both pass valid dates, start not after end, and no adjust.
ReadMetadata(p) ==
  /\ callers[p].pc = "idle"
  /\ \A q \in Callers : q < p => callers[q].pc # "idle"
  /\ \E args \in {a \in Dates \X Dates : a[1] <= a[2]} :
       LET cov == LoadCoverage(file, meta) IN
       callers' = [callers EXCEPT ![p] =
                     [NoCaller EXCEPT !.pc = IF IsCovered(cov, args[1], args[2])
                                             THEN "hit" ELSE "load",
                                      !.s = args[1], !.e = args[2],
                                      !.adjust = DefaultAdjust, !.cov = cov]]
  /\ UNCHANGED <<file, meta, now, last, dataset, snap, slast, symbol_input, parsed>>

\* lines 155-164: the covered caller reads the table and returns its slice,
\* or goes on as a miss when the table does not read
ReadOnHit(p) ==
  /\ callers[p].pc = "hit"
  /\ callers' = [callers EXCEPT ![p] =
                   IF HitReadable(file)
                   THEN [@ EXCEPT !.pc = "done", !.outcome = "hit"]
                   ELSE [@ EXCEPT !.pc = "load"]]
  /\ UNCHANGED <<file, meta, now, last, dataset, snap, slast, symbol_input, parsed>>

\* lines 169-184: cached_df is loaded from the table file
LoadCachedTable(p) ==
  /\ callers[p].pc = "load"
  /\ callers' = [callers EXCEPT ![p] = [@ EXCEPT !.pc = "fetch",
                                                  !.cached = LoadCached(file)]]
  /\ UNCHANGED <<file, meta, now, last, dataset, snap, slast, symbol_input, parsed>>

\* lines 188-212: the remote answers; an error is raised to the caller
FetchNew(p) ==
  /\ callers[p].pc = "fetch"
  /\ LET c == callers[p]
         iv == FetchInterval(c.cov, c.s, c.e)
     IN \E resp \in Responses(iv[1], iv[2], c.adjust) :
          callers' = [callers EXCEPT ![p] =
                        IF resp.kind = "error"
                        THEN [@ EXCEPT !.pc = "done", !.outcome = "fetch_error"]
                        ELSE [@ EXCEPT !.pc = "table", !.fetched = resp.df]]
  /\ UNCHANGED <<file, meta, now, last, dataset, snap, slast, symbol_input, parsed>>

\* line 215: final_df.to_csv(file_path)
SaveTable(p) ==
  /\ callers[p].pc = "table"
  /\ LET c == callers[p]
         written == ToCsv(Merged(c.cached, c.fetched))
     IN /\ file' = written
        /\ callers' = [callers EXCEPT ![p] = [@ EXCEPT !.pc = "meta",
                                                        !.table = written]]
  /\ UNCHANGED <<meta, now, last, dataset, snap, slast, symbol_input, parsed>>

\* lines 221-239: json.dump(meta, f), then the slice is returned (KeyError
\* when final_df has no date column)
SaveMetadata(p) ==
  /\ callers[p].pc = "meta"
  /\ LET c == callers[p]
         written == Meta("json", NewCoveredStart(c.cov[1], c.s),
                         NewCoveredEnd(c.cov[2], c.e), now + 1)
     IN /\ meta' = written
        /\ callers' = [callers EXCEPT ![p] =
                         [@ EXCEPT !.pc = "done", !.metaw = written,
                                   !.outcome = IF Merged(c.cached, c.fetched).cols
                                               THEN "ok" ELSE "key_error"]]
  /\ now' = now + 1
  /\ UNCHANGED <<file, last, dataset, snap, slast, symbol_input, parsed>>

\* the files as one earlier call, made alone at time 1, left them (none
\* when its fetch failed)
InitRace ==
  /\ \E args \in {a \in Dates \X Dates : a[1] <= a[2]} :
       \E resp \in Responses(args[1], args[2], DefaultAdjust) :
         LET out == History(NoFile, NoMeta, args[1], args[2], DefaultAdjust,
                            resp, 1, Len(WriteOrder))
         IN /\ file = out.file
            /\ meta = out.meta
  /\ now = 1
  /\ last = CallRec("none", None, None, "qfq", <<None, None>>, <<>>, FALSE, {}, {}, 0,
                  <<>>, FALSE)
  /\ dataset = "history"
  /\ snap = NoSnapFile
  /\ slast = NoSnapCall
  /\ symbol_input = <<>>
  /\ parsed = NotParsed
  /\ callers = [p \in Callers |-> NoCaller]

\* one call of each caller, interleaved
NextRace ==
  \/ \E p \in Callers : ReadMetadata(p)
  \/ \E p \in Callers : ReadOnHit(p)
  \/ \E p \in Callers : LoadCachedTable(p)
  \/ \E p \in Callers : FetchNew(p)
  \/ \E p \in Callers : SaveTable(p)
  \/ \E p \in Callers : SaveMetadata(p)

SpecRace == InitRace /\ [][NextRace]_vars

\* ---- _parse_symbol applied to one input
InitParse ==
  /\ file = NoFile
  /\ meta = NoMeta
  /\ now = 0
  /\ last = CallRec("none", None, None, "qfq", <<None, None>>, <<>>, FALSE, {}, {}, 0,
                  <<>>, FALSE)
  /\ dataset = "history"
  /\ snap = NoSnapFile
  /\ slast = NoSnapCall
  /\ symbol_input \in SymbolInputs
  /\ parsed = NotParsed
  /\ callers = [p \in Callers |-> NoCaller]

CallParseSymbol ==
  /\ parsed = NotParsed
  /\ parsed' = ParseSymbol(symbol_input)
  /\ UNCHANGED <<file, meta, now, last, dataset, snap, slast, symbol_input, callers>>

NextParse == CallParseSymbol

SpecParse == InitParse /\ [][NextParse]_vars

\* ---------------------------------------------------------------- properties
DatesOf(rows) == {rows[i].date : i \in 1..Len(rows)}

CountIn(rows, r) == Cardinality({i \in 1..Len(rows) : rows[i] = r})

\* ret holds exactly the rows of rows dated in [s, e], each as often
IsSliceOf(ret, rows, s, e) ==
  \A r \in RowSet(rows) \cup RowSet(ret) :
    CountIn(ret, r) = IF s <= r.date /\ r.date <= e THEN CountIn(rows, r) ELSE 0

Ascending(rows) == \A i \in 1..(Len(rows) - 1) : rows[i].date <= rows[i + 1].date

\* the step is a call of get_stock_history with parseable dates
IsCall == now' # now /\ last'.s \in Dates /\ last'.e \in Dates

\* C1: a call whose table file is a valid table and whose metadata covers
\* the requested interval makes no remote fetch, does not raise, and returns
\* exactly the persisted rows dated in the requested interval.
C1_FullHit ==
  [][(/\ IsCall
      /\ file.kind = "table"
      /\ meta.kind = "json" /\ meta.covered_start # None /\ meta.covered_end # None
      /\ meta.covered_start <= last'.s /\ meta.covered_end >= last'.e)
     => (/\ last'.fetches = <<>>
         /\ ~last'.raised
         /\ IsSliceOf(last'.ret, file.rows, last'.s, last'.e))]_vars

\* a hit that returned a proper, non-empty part of the table
C1_Witness ==
  /\ last.outcome = "hit"
  /\ last.ret # <<>>
  /\ Len(last.ret) < Len(file.rows)

\* C2: once metadata exists, no step moves covered_start later or
\* covered_end earlier, or removes the metadata.
C2_CoverageMonotone ==
  [][meta.kind = "json"
     => (/\ meta'.kind = "json"
         /\ meta'.covered_start <= meta.covered_start
         /\ meta'.covered_end >= meta.covered_end)]_vars

\* a fetching call whose interval starts after, and ends before, the
\* bounds it found recorded, and the recorded bounds were kept
C2_Witness ==
  /\ last.outcome = "ok"
  /\ last.cov[1] # None /\ last.cov[2] # None
  /\ last.cov[1] < last.s /\ last.e < last.cov[2]
  /\ meta.covered_start = last.cov[1] /\ meta.covered_end = last.cov[2]

\* C3: the table holds a row for every day of the recorded coverage for
\* which the remote source has a row.
C3_CoverageComplete ==
  (meta.kind = "json" /\ meta.covered_start # None /\ meta.covered_end # None)
  => \A d \in RemoteDates :
       (meta.covered_start <= d /\ d <= meta.covered_end)
       => (file.kind = "table" /\ d \in DatesOf(file.rows))

\* C4: after a call whose fetch succeeded the metadata records
\* min(previous covered_start, start) and max(previous covered_end, end),
\* and exactly start and end when there was no metadata before.
C4_CoverageUpdate ==
  [][(IsCall /\ last'.outcome \in {"ok", "key_error"})
     => (/\ meta'.kind = "json"
         /\ meta'.covered_start = (IF meta.kind = "json" THEN Min(meta.covered_start, last'.s)
                        ELSE last'.s)
         /\ meta'.covered_end = (IF meta.kind = "json" THEN Max(meta.covered_end, last'.e)
                        ELSE last'.e))]_vars

\* a fetch of an interval that begins more than a day after the coverage
\* found, after which the coverage spans both
C4_Witness ==
  /\ last.outcome = "ok"
  /\ last.cov[2] # None
  /\ last.cov[2] + 1 < last.s /\ last.s <= last.e
  /\ meta.covered_start = last.cov[1] /\ meta.covered_end = last.e

\* C5: the rows a call returns are exactly the rows of the persisted
\* (merged) table dated in the requested interval, in ascending date order.
C5_SliceCorrect ==
  last.outcome \in {"hit", "ok"}
  => (/\ IsSliceOf(last.ret, file.rows, last.s, last.e)
      /\ Ascending(last.ret))

\* C6: after a fetch merged into a cached table, the persisted table has
\* one row for each date of the cached table or of the fetch result and no
\* other, and every fetched row is in it (so on a date of both, the fetched
\* row is the one kept).
C6_MergeDedupe ==
  [][(IsCall /\ last'.outcome = "ok" /\ file.kind = "table")
     => (/\ file'.kind = "table"
         /\ DatesOf(file'.rows)
              = DatesOf(file.rows) \cup {r.date : r \in last'.fetched}
         /\ \A i, j \in 1..Len(file'.rows) :
              file'.rows[i].date = file'.rows[j].date => i = j
         /\ \A r \in last'.fetched : r \in RowSet(file'.rows)
         /\ \A r \in RowSet(file'.rows) :
              r \in last'.fetched \/ r \in RowSet(file.rows))]_vars

\* a merge in which a fetched row replaced a different cached row of the
\* same date
C6_Witness ==
  /\ last.outcome = "ok"
  /\ last.merged
  /\ \E c \in last.cached, g \in last.fetched : c.date = g.date /\ c # g

\* C7: a call with start later than end raises without fetching and leaves
\* the table and the metadata as they were.
C7_InvalidRange ==
  [][(IsCall /\ last'.s > last'.e)
     => (/\ last'.raised
         /\ last'.fetches = <<>>
         /\ file' = file
         /\ meta' = meta)]_vars

\* C8: a call whose fetch raises, raises, and leaves the table file and
\* the whole metadata record as they were.
C8_FetchFailureUntouched ==
  [][(IsCall /\ last'.outcome = "fetch_error")
     => (/\ last'.raised
         /\ file' = file
         /\ meta' = meta)]_vars

\* a failed fetch against a populated cache
C8_Witness ==
  /\ last.outcome = "fetch_error"
  /\ file.kind = "table" /\ file.rows # <<>>
  /\ meta.kind = "json"

\* C9: a call that finds the table file empty, unparsable or without the
\* date column beside a metadata record, and whose fetch returns rows with
\* the date column, fetches once for the requested interval, leaves only the fetched rows in the
\* table and writes coverage equal to the requested interval.
C9_CorruptRecovery ==
  [][(/\ IsCall
      /\ last.outcome = "corrupt"
      /\ file.kind \in {"empty", "garbage", "nodate"}
      /\ meta.kind = "json" /\ meta.covered_start # None /\ meta.covered_end # None
      /\ last'.s <= last'.e
      /\ last'.outcome = "ok")
     => (/\ last'.fetches = <<<<last'.s, last'.e>>>>
         /\ RowSet(file'.rows) = last'.fetched
         /\ meta'.kind = "json"
         /\ meta'.covered_start = last'.s
         /\ meta'.covered_end = last'.e)]_vars

\* C10: when a call stops between its two file writes, the metadata is
\* still the record found and the table file already holds the fetched rows.
C10_TableBeforeMeta ==
  [][last'.outcome = "crash"
     => (/\ meta' = meta
         /\ file'.kind \in {"table", "garbage"}
         /\ last'.fetched \subseteq RowSet(file'.rows))]_vars

\* a stop between the writes of a call that fetched rows for an interval
\* the metadata found does not cover
C10_Witness ==
  /\ last.outcome = "crash"
  /\ last.writes = 1
  /\ last.fetched # {}
  /\ meta.kind = "json"
  /\ ~(meta.covered_start <= last.s /\ meta.covered_end >= last.e)
  /\ file.kind = "table"

\* the recorded bounds cov include the interval [s, e]
CoversInterval(cov, s, e) ==
  cov[1] # None /\ cov[2] # None /\ cov[1] <= s /\ cov[2] >= e

\* C11: when a call found its interval covered by the metadata and the
\* table file a valid table, and the next call asks for the same interval,
\* neither call fetches, the second does not raise, and both return the
\* same rows in the same order.
C11_IdempotentRerequest ==
  [][(/\ IsCall
      /\ last.s = last'.s /\ last.e = last'.e
      /\ CoversInterval(last.cov, last.s, last.e)
      /\ (last.outcome = "hit" \/ last.merged))
     => (/\ last.fetches = <<>>
         /\ last'.fetches = <<>>
         /\ ~last'.raised
         /\ last'.ret = last.ret)]_vars

\* a hit that follows a hit for the same interval and returned rows
C11_Witness ==
  /\ last.outcome = "hit"
  /\ last.again
  /\ last.ret # <<>>

\* C12: a call whose table file is a valid table and whose metadata covers
\* the requested interval makes no remote fetch; every other call makes
\* exactly one, for exactly the requested interval, also when the metadata
\* covers a part of it and also when the fetch raises.
C12_FetchOnceWholeInterval ==
  [][IsCall
     => last'.fetches
          = (IF /\ file.kind = "table"
                /\ meta.kind = "json"
                /\ CoversInterval(<<meta.covered_start, meta.covered_end>>,
                                  last'.s, last'.e)
             THEN <<>>
             ELSE <<<<last'.s, last'.e>>>>)]_vars

\* a call for an interval that begins inside the coverage found and ends
\* after it, which fetched the whole requested interval and merged
C12_Witness ==
  /\ last.outcome = "ok"
  /\ last.merged
  /\ last.cov[2] # None
  /\ last.cov[1] <= last.s /\ last.s <= last.cov[2] /\ last.cov[2] < last.e
  /\ last.fetches = <<<<last.s, last.e>>>>

\* C13: in every reachable state the table file holds at most one row for
\* each date.
C13_UniqueDates ==
  file.kind = "table"
  => \A i, j \in 1..Len(file.rows) :
       file.rows[i].date = file.rows[j].date => i = j

\* C14: in every reachable state the rows of the table file are in
\* ascending order of date.
C14_SortedAscending ==
  file.kind = "table" => Ascending(file.rows)

\* the rows of a in the order of b, some possibly left out
RECURSIVE IsSubSeq(_, _)
IsSubSeq(a, b) ==
  IF a = <<>> THEN TRUE
  ELSE IF b = <<>> THEN FALSE
  ELSE IF Head(a) = Head(b) THEN IsSubSeq(Tail(a), Tail(b))
  ELSE IsSubSeq(a, Tail(b))

\* C15: a snapshot call with force_update false that finds a file that
\* parses makes no remote call, does not raise, leaves the file as it was
\* and returns the rows of the file (all of them when no filter date is
\* given).
C15_SnapshotHit ==
  [][(~slast'.force /\ snap.kind = "table")
     => (/\ slast'.fetches = 0
         /\ ~slast'.raised
         /\ snap' = snap
         /\ slast'.ret.cols
         /\ slast'.ret.datecol = snap.datecol
         /\ (slast'.start = None /\ slast'.end = None)
              => slast'.ret.rows = snap.rows)]_vars

\* a call of the institute getter answered from a file that holds rows
C15_Witness ==
  /\ dataset = "institute"
  /\ slast.outcome = "hit"
  /\ ~slast.force
  /\ slast.ret.rows # <<>>
  /\ slast.ret.rows = snap.rows

C17_FilterOrthogonal ==
  [][(dataset \in FilteredKinds
     => LET plain == SnapshotGet(dataset, snap, slast'.force, None, None,
                                 slast'.answer)
        IN /\ plain.snap = snap'
           /\ plain.slast.fetches = slast'.fetches
           /\ plain.slast.raised = slast'.raised
           /\ IsSubSeq(slast'.ret.rows, plain.slast.ret.rows)
           /\ slast'.fetches = (IF ~slast'.force /\ snap.kind = "table" THEN 0 ELSE 1)
           /\ slast'.outcome = "ok" => snap'.rows = slast'.fetched.rows
           /\ slast'.outcome # "ok" => snap' = snap)]_vars

\* a call with a filter date that fetched, returned fewer rows than it
\* fetched and left all the fetched rows in the file
C17_Witness ==
  /\ dataset \in FilteredKinds
  /\ slast.outcome = "ok"
  /\ slast.start # None
  /\ slast.ret.rows # <<>>
  /\ Len(slast.ret.rows) < Len(slast.fetched.rows)
  /\ snap.rows = slast.fetched.rows

\* the day d is within the bounds given, a bound of None being no bound
WithinBounds(d, start, end) ==
  /\ d # None
  /\ (start = None \/ d >= start)
  /\ (end = None \/ d <= end)

\* C18: when the dividend or research getter is given a start date or an
\* end date (each a date that parses) and the table has the date column,
\* the rows returned are exactly the rows of the table whose date is within
\* the bounds given, in the order of the table; a bound not given does not
\* restrict.
C18_DateFilterResult ==
  [][(/\ dataset \in FilteredKinds
      /\ slast'.outcome \in {"hit", "ok"}
      /\ slast'.start # None \/ slast'.end # None
      /\ slast'.start \in Dates \cup {None}
      /\ slast'.end \in Dates \cup {None}
      /\ snap'.kind = "table" /\ snap'.datecol)
     => slast'.ret.rows
          = SelectSeq(snap'.rows,
                      LAMBDA r : WithinBounds(r.date, slast'.start, slast'.end))]_vars

\* a filtered call with only the start date given that returned the row
\* dated on the start date and left out an earlier row and the row without
\* a date
C18_Witness ==
  /\ dataset \in FilteredKinds
  /\ slast.outcome \in {"hit", "ok"}
  /\ slast.start \in Dates /\ slast.end = None
  /\ snap.kind = "table" /\ snap.datecol
  /\ \E i \in 1..Len(slast.ret.rows) : slast.ret.rows[i].date = slast.start
  /\ \E i \in 1..Len(snap.rows) : snap.rows[i].date = None
  /\ \E i \in 1..Len(snap.rows) :
       snap.rows[i].date # None /\ snap.rows[i].date < slast.start
  /\ \A i \in 1..Len(slast.ret.rows) :
       slast.ret.rows[i].date # None /\ slast.ret.rows[i].date >= slast.start

\* C19 as stated: whenever the remote call of get_stock_history or of a
\* snapshot getter raises, the getter raises.
C19_FetchErrorPropagates ==
  [][(/\ (dataset = "history" /\ IsCall /\ last'.outcome = "fetch_error")
           => last'.raised
      /\ (dataset \in SnapKinds /\ slast'.answer.kind = "error")
           => slast'.raised)]_vars

\* C19: whenever the remote call of get_stock_history or of a snapshot
\* getter raises, the getter raises and leaves its file as it was, except
\* that get_stock_institute_recommendations returns a frame without columns
\* or rows, not raising, when the message of the exception contains
\* "Empty DataFrame" or "No tables found"; its file too is left as it was.
C19_FetchErrorPropagatesUnlessNoTables ==
  [][(/\ (dataset = "history" /\ IsCall /\ last'.outcome = "fetch_error")
           => (last'.raised /\ file' = file)
      /\ (dataset \in SnapKinds /\ slast'.answer.kind = "error")
           => (/\ snap' = snap
               /\ slast'.fetches = 1
               /\ IF dataset = "institute" /\ slast'.answer.msg = "no_tables"
                  THEN ~slast'.raised /\ slast'.ret = EmptyFrame
                  ELSE slast'.raised))]_vars

\* a forced call of the institute getter whose remote call raised "No
\* tables found" and which returned an empty frame beside a file with rows
C19_Witness ==
  /\ dataset = "institute"
  /\ slast.outcome = "swallowed"
  /\ slast.answer.kind = "error"
  /\ ~slast.raised
  /\ slast.ret = EmptyFrame
  /\ snap.kind = "table" /\ snap.rows # <<>>

\* the string s without the blanks before its first and after its last
\* character that is not a blank
Unpadded(s) ==
  IF \A i \in 1..Len(s) : s[i] = " " THEN <<>>
  ELSE LET a == CHOOSE i \in 1..Len(s) :
                  s[i] # " " /\ \A j \in 1..(i - 1) : s[j] = " "
           b == CHOOSE i \in 1..Len(s) :
                  s[i] # " " /\ \A j \in (i + 1)..Len(s) : s[j] = " "
       IN SubSeq(s, a, b)

\* two characters that are equal or the two cases of one letter
SameLetter(c, d) ==
  \/ c = d
  \/ <<c, d>> \in {<<"S", "s">>, <<"Z", "z">>, <<"H", "h">>, <<"B", "b">>, <<"J", "j">>}
  \/ <<d, c>> \in {<<"S", "s">>, <<"Z", "z">>, <<"H", "h">>, <<"B", "b">>, <<"J", "j">>}

\* x and y differ only in letter case and in surrounding blanks
SameUpToCaseAndBlanks(x, y) ==
  LET a == Unpadded(x)
      b == Unpadded(y)
  IN Len(a) = Len(b) /\ \A i \in 1..Len(a) : SameLetter(a[i], b[i])

\* the positions of the dots of s
DotsOf(s) == {i \in 1..Len(s) : s[i] = "."}

\* C20: _parse_symbol of an input that, without its surrounding blanks,
\* holds one '.' returns the lower-cased part before the '.' as pure_code
\* and the upper-cased part after it followed by that code as xq_code
\* ("000858.sz" gives ("000858", "SZ000858"), "600519.sh" gives ("600519",
\* "SH600519")); of an input without '.' it returns the lower-cased input
\* without its surrounding blanks as pure_code and as xq_code that code
\* after SH when it begins with 6, SZ when it begins with 0 or 3, BJ when it
\* begins with 4 or 8, and SZ otherwise; and every input that differs from
\* it only in letter case or surrounding blanks has the same result.
C20_ParseSymbol ==
  parsed # NotParsed
  => LET t == Unpadded(symbol_input)
         lead == IF t = <<>> THEN "" ELSE t[1]
     IN /\ Cardinality(DotsOf(t)) = 1
             => LET i == CHOOSE k \in DotsOf(t) : TRUE
                    code == SubSeq(t, 1, i - 1)
                    suffix == SubSeq(t, i + 1, Len(t))
                IN /\ ~parsed.raised
                   /\ SameUpToCaseAndBlanks(parsed.pure_code, code)
                   /\ \A k \in 1..Len(parsed.pure_code) :
                        parsed.pure_code[k] \notin {"S", "Z", "H", "B", "J"}
                   /\ Len(parsed.xq_code) = Len(suffix) + Len(code)
                   /\ SameUpToCaseAndBlanks(SubSeq(parsed.xq_code, 1, Len(suffix)), suffix)
                   /\ \A k \in 1..Len(suffix) :
                        parsed.xq_code[k] \notin {"s", "z", "h", "b", "j"}
                   /\ SubSeq(parsed.xq_code, Len(suffix) + 1, Len(parsed.xq_code))
                        = parsed.pure_code
        /\ DotsOf(t) = {}
             => /\ ~parsed.raised
                /\ SameUpToCaseAndBlanks(parsed.pure_code, t)
                /\ \A k \in 1..Len(parsed.pure_code) :
                     parsed.pure_code[k] \notin {"S", "Z", "H", "B", "J"}
                /\ parsed.xq_code
                     = (CASE lead = "6" -> <<"S", "H">>
                          [] lead \in {"0", "3"} -> <<"S", "Z">>
                          [] lead \in {"4", "8"} -> <<"B", "J">>
                          [] OTHER -> <<"S", "Z">>) \o parsed.pure_code
        /\ symbol_input = <<"0", "0", "0", "8", "5", "8", ".", "s", "z">>
             => /\ parsed.pure_code = <<"0", "0", "0", "8", "5", "8">>
                /\ parsed.xq_code = <<"S", "Z", "0", "0", "0", "8", "5", "8">>
        /\ symbol_input = <<"6", "0", "0", "5", "1", "9", ".", "s", "h">>
             => /\ parsed.pure_code = <<"6", "0", "0", "5", "1", "9">>
                /\ parsed.xq_code = <<"S", "H", "6", "0", "0", "5", "1", "9">>
        /\ \A y \in SymbolInputs :
             SameUpToCaseAndBlanks(y, symbol_input) => ParseSymbol(y) = parsed

\* the result for a code that begins with 8, given in blanks and without a
\* suffix
C20_Witness ==
  /\ symbol_input = <<" ", "8", "1", " ">>
  /\ parsed = Parsed(FALSE, <<"8", "1">>, <<"B", "J", "8", "1">>)

\* C21: a call with no cached table to merge with, whose fetch returns a
\* frame without the date column, raises and leaves the table file and the
\* metadata as they were.
C21_UnusableFetchUntouched ==
  [][(IsCall /\ last'.outcome = "key_error")
     => (/\ last'.raised
         /\ file' = file
         /\ meta' = meta)]_vars

\* C26: in every reachable state, a metadata record that exists has
\* covered_start not later than covered_end.
C26_WellFormedCoverage ==
  (meta.kind = "json" /\ meta.covered_start # None /\ meta.covered_end # None)
  => meta.covered_start <= meta.covered_end

\* C27: a call answered from the cache leaves the table file and the whole
\* metadata record as they were, and last_update changes only in a call
\* that fetched, wrote and returned without raising.
C27_HitChangesNothing ==
  [][IsCall
     => (/\ last'.outcome = "hit" => (file' = file /\ meta' = meta)
         /\ meta'.last_update # meta.last_update
              => (last'.outcome = "ok" /\ ~last'.raised))]_vars

\* the days the metadata m records as covered
CoveredDays(m) ==
  IF m.kind = "json" /\ m.covered_start # None /\ m.covered_end # None
  THEN m.covered_start..m.covered_end
  ELSE {}

\* the table f holds a row for every day the metadata m records as covered
\* and for which the remote source has a row
HoldsCovered(f, m) ==
  \A d \in CoveredDays(m) \cap RemoteDates :
    f.kind = "table" /\ d \in DatesOf(f.rows)

\* C24: from a cache that is empty, or whose coverage is the union of the
\* intervals requested so far and whose table holds every covered day the
\* remote has, a call that succeeds for a valid interval that overlaps or
\* is adjacent to the recorded coverage leaves the coverage equal to the
\* union of the old coverage and the requested interval, and the table
\* holding every covered day the remote has.
C24_ContiguousGrowthComplete ==
  [][(/\ IsCall
      /\ last'.s <= last'.e
      /\ last'.outcome \in {"hit", "ok"}
      /\ HoldsCovered(file, meta)
      /\ \/ meta.kind = "absent"
         \/ /\ meta.kind = "json"
            /\ last'.s <= meta.covered_end + 1
            /\ last'.e >= meta.covered_start - 1)
     => (/\ CoveredDays(meta') = CoveredDays(meta) \cup (last'.s..last'.e)
         /\ HoldsCovered(file', meta'))]_vars

\* a fetch for an interval that begins on the day after the coverage found,
\* after which the coverage spans both and the table holds a row of each
\* part
C24_Witness ==
  /\ last.outcome = "ok"
  /\ last.merged
  /\ last.cov[2] # None
  /\ last.s = last.cov[2] + 1
  /\ last.s <= last.e
  /\ CoveredDays(meta) = last.cov[1]..last.e
  /\ HoldsCovered(file, meta)
  /\ \E d \in DatesOf(file.rows) : d < last.s
  /\ \E d \in DatesOf(file.rows) : d >= last.s

\* C28: no call removes a date from the table file: once the file is a
\* table, it stays one and every date it holds is held after every call,
\* whether the call is answered from the cache, fetches, or raises.
C28_NoRowLoss ==
  [][file.kind = "table"
     => (/\ file'.kind = "table"
         /\ DatesOf(file.rows) \subseteq DatesOf(file'.rows))]_vars

\* a fetch merged into a table that held a date the fetch did not return,
\* and the table still holds that date
C28_Witness ==
  /\ last.outcome = "ok"
  /\ last.merged
  /\ last.fetched # {}
  /\ \E c \in last.cached :
       /\ \A g \in last.fetched : g.date # c.date
       /\ c.date \in DatesOf(file.rows)

\* C29: the table and the coverage do not depend on adjust.  A call for the
\* interval of the call before it, which fetched and left a valid table, is
\* answered from the cache under any other adjust: it makes no fetch and
\* every row it returns was fetched under the earlier call's adjust.  A
\* fetch merged into a table keeps the cached rows of the dates it did not
\* fetch, whatever adjust they were fetched under, beside its own rows.
C29_AdjustIgnored ==
  [][(/\ IsCall
      /\ last.outcome = "ok"
      /\ file.kind = "table"
      /\ last'.s = last.s /\ last'.e = last.e
      /\ last'.adjust # last.adjust
      => (/\ last'.outcome = "hit"
          /\ last'.fetches = <<>>
          /\ \A i \in 1..Len(last'.ret) : last'.ret[i].adjust = last.adjust
          /\ \A r \in last.fetched :
               (last.s <= r.date /\ r.date <= last.e)
               => \E i \in 1..Len(last'.ret) : last'.ret[i] = r))
     /\ ((IsCall /\ last'.outcome = "ok" /\ file.kind = "table")
         => (/\ \A r \in RowSet(file.rows) :
                  (\A g \in last'.fetched : g.date # r.date)
                  => r \in RowSet(file'.rows)
             /\ \A g \in last'.fetched :
                  g.adjust = last'.adjust /\ g \in RowSet(file'.rows)))]_vars

\* a call under hfq answered from the cache with rows fetched under qfq,
\* and a table that holds rows fetched under both
C29_Witness ==
  /\ last.outcome = "hit"
  /\ ~last.again
  /\ last.ret # <<>>
  /\ \A i \in 1..Len(last.ret) : last.ret[i].adjust # last.adjust
  /\ \E r, q \in RowSet(file.rows) : r.adjust # q.adjust

\* C25: a call of the dividend or research getter with a start or an end
\* date, on a table without the date column, does not raise, returns all
\* the rows of the table in their order, and leaves the file as the cache
\* read or the fetch made it.
C25_MissingFilterColumn ==
  [][(/\ dataset \in FilteredKinds
      /\ slast'.start # None \/ slast'.end # None
      /\ slast'.outcome \in {"hit", "ok"}
      /\ ~slast'.ret.datecol)
     => (/\ ~slast'.raised
         /\ slast'.outcome = "hit"
              => (slast'.ret.rows = snap.rows /\ snap' = snap)
         /\ slast'.outcome = "ok"
              => (/\ slast'.ret.rows = slast'.answer.df.rows
                  /\ snap'.rows = slast'.answer.df.rows))]_vars

\* a call with a start date answered from a file whose table has rows and
\* no date column, which returned all of them
C25_Witness ==
  /\ dataset \in FilteredKinds
  /\ slast.outcome = "hit"
  /\ slast.start \in Dates
  /\ snap.kind = "table" /\ ~snap.datecol
  /\ snap.rows # <<>>
  /\ slast.ret.rows = snap.rows

\* C30: a snapshot call with force_update true that finds a table and whose
\* remote call raises leaves the file exactly as it was; the next call with
\* force_update false makes no remote call, does not raise and returns the
\* rows of that table (all of them when no filter date is given).
C30_FailedRefreshKeepsTable ==
  [][(/\ (slast'.force /\ snap.kind = "table" /\ slast'.answer.kind = "error")
           => (snap' = snap /\ slast'.found = snap)
      /\ (/\ slast.force
          /\ slast.answer.kind = "error"
          /\ slast.found.kind = "table"
          /\ ~slast'.force)
           => (/\ slast'.fetches = 0
               /\ ~slast'.raised
               /\ snap' = slast.found
               /\ (slast'.start = None /\ slast'.end = None)
                    => slast'.ret.rows = slast.found.rows))]_vars

\* a forced call of the valuation getter whose remote call raised, beside
\* the table it found
C30_Witness ==
  /\ dataset = "valuation"
  /\ slast.outcome = "fetch_error"
  /\ slast.force
  /\ slast.raised
  /\ slast.found.kind = "table" /\ slast.found.rows # <<>>
  /\ snap = slast.found

\* the table file or the metadata of the history cache is damaged
HistoryCorrupt(f, m) ==
  /\ f.kind # "absent"
  /\ m.kind # "absent"
  /\ \/ f.kind \in {"empty", "garbage", "nodate"}
     \/ m.kind = "garbage"
     \/ m.covered_start = None
     \/ m.covered_end = None

\* C23: a call of get_stock_history for a valid interval that finds the
\* table file empty, unparsable or without the date column, or the metadata
\* unparsable or incomplete, is not answered from the cache: it fetches
\* once, for the requested interval, and for every answer of the remote
\* that is a frame with the date column it returns without raising.  A call
\* of a snapshot getter that finds its file empty or unparsable calls the
\* remote once and, when the remote returns a frame with columns, returns
\* it without raising.
C23_CorruptionNotFatal ==
  [][(/\ (dataset = "history" /\ IsCall /\ HistoryCorrupt(file, meta))
           => (/\ last'.fetches = <<<<last'.s, last'.e>>>>
               /\ last'.outcome \in {"ok", "fetch_error", "key_error"}
               /\ \A resp \in Responses(last'.s, last'.e, last'.adjust) :
                    (resp.kind = "ok" /\ resp.df.cols)
                    => LET o == History(file, meta, last'.s, last'.e, last'.adjust,
                                        resp, now', Len(WriteOrder)).last
                       IN /\ o.outcome = "ok"
                          /\ ~o.raised
                          /\ o.fetches = <<<<last'.s, last'.e>>>>
                          /\ RowSet(o.ret) = {r \in RowSet(resp.df.rows) :
                                                last'.s <= r.date /\ r.date <= last'.e})
      /\ (/\ dataset \in SnapKinds
          /\ slast'.outcome # "corrupt"
          /\ snap.kind \in {"empty", "garbage"})
           => (/\ slast'.fetches = 1
               /\ (slast'.answer.kind = "ok" /\ slast'.answer.df.cols)
                    => (/\ slast'.outcome = "ok"
                        /\ ~slast'.raised
                        /\ snap'.kind = "table"
                        /\ snap'.rows = slast'.answer.df.rows)))]_vars

\* a call of get_stock_history that read coverage from the metadata, found
\* no usable table beside it, fetched, and returned rows
C23_Witness ==
  /\ dataset = "history"
  /\ last.outcome = "ok"
  /\ last.cov[1] # None
  /\ ~last.merged
  /\ last.ret # <<>>
  /\ file.kind = "table"

\* ---------------------------------------------------------------- C22
\* both callers have returned or raised
AllDone == \A p \in Callers : callers[p].pc = "done"

\* the callers that saved a table and metadata
Savers == {p \in Callers : callers[p].pc = "done" /\ callers[p].metaw # NoMeta}

\* C22, as stated: two calls of get_stock_history interleaved at each file
\* access: once both have finished, the persisted table and the persisted
\* metadata are both the ones written by a single one of the callers that
\* saved.
C22_SingleWinner ==
  (AllDone /\ Savers # {})
  => \E p \in Savers : file = callers[p].table /\ meta = callers[p].metaw

\* C22, amended: once both have finished, the persisted table is the one
\* written by one caller that saved (what it loaded merged with what it
\* fetched) and the persisted metadata is the one written by one caller that
\* saved (the coverage it read extended by its interval), not necessarily the
\* same caller.
C22_EachFileFromOneCall ==
  (AllDone /\ Savers # {})
  => \E p \in Savers, q \in Savers :
       LET c == callers[p]
           d == callers[q]
       IN /\ file = c.table
          /\ c.cached.has
               => /\ file.kind = "table"
                  /\ DatesOf(file.rows)
                       = DatesOf(c.cached.rows) \cup DatesOf(c.fetched.rows)
          /\ meta = d.metaw
          /\ meta.kind = "json"
          /\ meta.covered_start = IF d.cov[1] = None THEN d.s ELSE Min(d.cov[1], d.s)
          /\ meta.covered_end = IF d.cov[2] = None THEN d.e ELSE Max(d.cov[2], d.e)

\* both callers read the same coverage, both merged their rows into the table
\* they loaded and saved; the table left is the first caller's and lacks a
\* day the metadata, left by the second, names as covered
C22_Witness ==
  /\ AllDone
  /\ Savers = Callers
  /\ callers[1].cov = callers[2].cov
  /\ callers[1].cov[1] # None
  /\ callers[1].cov[2] # None
  /\ callers[1].cached.has
  /\ callers[2].cached.has
  /\ file = callers[1].table
  /\ meta = callers[2].metaw
  /\ file # callers[2].table
  /\ meta # callers[1].metaw
  /\ \E day \in RemoteDates :
       /\ meta.covered_start <= day
       /\ day <= meta.covered_end
       /\ day \notin DatesOf(file.rows)

====
